---- MODULE Spec2Model ----
(***************************************************************************)
(* A model of get-rules (src/cli.js): main() picks a repository coordinate *)
(* from the command line or the interactive prompt, makes sure the         *)
(* destination directory exists and runs downloadDirectory(), the          *)
(* recursive, strictly sequential mirror of the remote .cursor tree.       *)
(*                                                                         *)
(* A path is the sequence of entry names below the destination root; a     *)
(* coordinate or an argument is a sequence of tokens, each either the      *)
(* slash "/" or a non-empty run of non-slash characters.                   *)
(***************************************************************************)
EXTENDS Integers, Sequences, FiniteSets, TLC

\* Date.now() is read from a clock that takes the values 0..MaxClock.
MaxClock == 2

DEFAULT_ORG == <<"johnlindquist">>
DEFAULT_REPO == <<"get-rules">>
DefaultCoordinate == DEFAULT_ORG \o <<"/">> \o DEFAULT_REPO

----------------------------------------------------------------------------
(* The remote tree, as the listing endpoint exposes it.                    *)

FileEntry(n) == [name |-> n, type |-> "file", download_url |-> TRUE]
BareFileEntry(n) == [name |-> n, type |-> "file", download_url |-> FALSE]
DirEntry(n) == [name |-> n, type |-> "dir", download_url |-> FALSE]
OtherEntry(n) == [name |-> n, type |-> "symlink", download_url |-> FALSE]

\* .cursor/{ x/{a, b}, y/{a, n (no download_url)}, l (symlink) }
RemoteTree ==
    (<<>> :> <<DirEntry("x"), DirEntry("y"), OtherEntry("l")>>)
    @@ (<<"x">> :> <<FileEntry("a"), FileEntry("b")>>)
    @@ (<<"y">> :> <<FileEntry("a"), BareFileEntry("n")>>)

RemoteDirs == DOMAIN RemoteTree
SubDirs == RemoteDirs \ {<<>>}
ChildPaths(d) == {Append(d, RemoteTree[d][i].name) : i \in 1..Len(RemoteTree[d])}
AllEntryPaths == UNION {ChildPaths(d) : d \in RemoteDirs}
Paths == {<<>>} \cup AllEntryPaths
EntryAt(p) ==
    LET d == SubSeq(p, 1, Len(p) - 1)
    IN  RemoteTree[d][CHOOSE i \in 1..Len(RemoteTree[d]) : RemoteTree[d][i].name = p[Len(p)]]
RemoteFiles == {p \in AllEntryPaths : EntryAt(p).type = "file" /\ EntryAt(p).download_url}
Names == {p[Len(p)] : p \in AllEntryPaths}
Parent(p) == SubSeq(p, 1, Len(p) - 1)

\* The entries the loop passes over: neither a directory nor a file with a
\* download_url.
SkippedEntries == {p \in AllEntryPaths : EntryAt(p).type # "dir"} \ RemoteFiles

\* Local paths no listing mentions: a file z in each subdirectory.
LocalOnly == {Append(d, "z") : d \in SubDirs}
LocalPaths == Paths \cup LocalOnly

----------------------------------------------------------------------------
(* Contents of a local path: nothing, a directory, the file that was there *)
(* before the run, the file as fetched from the remote, or the empty file  *)
(* a write stream has just opened.                                         *)

Absent == [kind |-> "absent", src |-> <<>>]
DirNode == [kind |-> "dir", src |-> <<>>]
Empty == [kind |-> "empty", src |-> <<>>]
Old(p) == [kind |-> "old", src |-> p]
New(p) == [kind |-> "new", src |-> p]

TempPaths == Names \X (0..MaxClock)

VARIABLES
    userArg,        \* process.argv[2]; <<>> when absent
    serverListing,  \* what the listing endpoint answers for each directory
    serverFetch,    \* the files whose content request the server fails
    preexisting,    \* the files present locally before the run
    emptyStart,     \* the destination held nothing below its root before the run
    prompt,         \* the interactive prompt: shown, its initial value, the answer
    org, repo,      \* the coordinate main() settled on; <<>> while unset
    pc,             \* main(): "start", "prompt", "ensure", "sync", "done", "exited"
    exitCode,       \* -1 while the process runs
    reported,       \* "Download completed!" was printed
    returned,       \* what the top-level downloadDirectory() handed to main()
    local,          \* the destination tree: path -> contents
    temp,           \* os.tmpdir(): <<name, timestamp>> -> contents
    now,            \* Date.now()
    stats,          \* the SyncStats accumulator
    stack,          \* the active downloadDirectory() calls, outermost first
    pendingUnlink,  \* fs.unlink() calls issued and not yet carried out
    writeStreams,   \* the write streams created and not closed
    requests,       \* every https.get issued, in order
    displaced,      \* every renameSync to temp carried out, in order
    started,        \* every downloadFile() call: its path and what the path held
    faults,         \* the filesystem failures and aborted responses that occurred
    visited,        \* the entries the loops have taken up, in order
    script,         \* the rule script that runs: "convert", "move", "validate"; "none" for the CLI
    content,        \* the .mdc file the script is given
    step,           \* where the script stands in processMdcFile() or its validation loop
    data,           \* the frontmatter data processMdcFile() works with
    parse,          \* how the data was obtained: matter() threw, the fallback was used
    disk,           \* the .mdc file, the .md file to write and the directory it goes to
    ioFailed,       \* the file operations of the script that failed
    result          \* what processMdcFile() or validateFrontmatter() handed back

\* The rule scripts (src/unnamed) are programs of their own: no step of the CLI
\* touches their state.
scriptVars == <<script, content, step, data, parse, disk, ioFailed, result>>

envVars == <<userArg, serverListing, serverFetch, preexisting, emptyStart, scriptVars>>
cliVars == <<prompt, org, repo>>
procVars == <<pc, exitCode, reported, returned>>
fsVars == <<local, temp>>
histVars == <<requests, displaced, started, faults, visited>>
vars == <<envVars, cliVars, procVars, fsVars, now, stats, stack, pendingUnlink, writeStreams,
          histVars>>

NoData == [alwaysApply |-> "undefined", globs |-> "undefined"]
NoParse == [threw |-> FALSE, fallback |-> FALSE]

\* No rule script runs.
ScriptsIdle ==
    /\ script = "none"
    /\ content = [block |-> "none", lines |-> <<>>]
    /\ step = "idle"
    /\ data = NoData
    /\ parse = NoParse
    /\ disk = [src |-> FALSE, dst |-> "absent", dir |-> FALSE]
    /\ ioFailed = {}
    /\ result = "none"

----------------------------------------------------------------------------
(* main(): the coordinate.                                                 *)

\* The pattern without its end anchor: /^[^/]+\/[^/]+/
ValidCoordinate_unanchored(arg) ==
    \E i \in 1..Len(arg) :
        /\ arg[i] = "/"
        /\ 1 < i
        /\ i < Len(arg)
        /\ \A j \in 1..i : arg[j] = "/" => j = i
        /\ arg[i + 1] # "/"

\* /^[^/]+\/[^/]+$/.test(arg)
ValidCoordinate(arg) ==
    \E i \in 1..Len(arg) :
        /\ arg[i] = "/"
        /\ 1 < i
        /\ i < Len(arg)
        /\ \A j \in 1..Len(arg) : arg[j] = "/" => j = i

\* The index of the first slash of arg at or after i, Len(arg)+1 when none.
NextSlash(arg, i) ==
    IF \E j \in i..Len(arg) : arg[j] = "/"
    THEN CHOOSE j \in i..Len(arg) : arg[j] = "/" /\ \A k \in i..(j - 1) : arg[k] # "/"
    ELSE Len(arg) + 1

\* [org, repo] = arg.split("/"): the first two segments, <<>> for a segment
\* that is empty or missing (both are falsy).
Split(arg) ==
    LET e1 == NextSlash(arg, 1)
        e2 == NextSlash(arg, e1 + 1)
    IN  <<SubSeq(arg, 1, e1 - 1),
          IF e1 > Len(arg) THEN <<>> ELSE SubSeq(arg, e1 + 1, e2 - 1)>>

UserArgs ==
    { <<>>, <<"rules">>, <<"acme", "/", "kit">>, <<"acme", "/", "kit", "/", "x">> }

\* What prompts() hands back: nothing when cancelled, otherwise a value its
\* validate callback accepted.
PromptAnswers == { <<>>, DefaultCoordinate, <<"me", "/", "mine">> }

\* A prompt whose answer is always taken as given.
promptCancelled_never(answer) == FALSE

\* !response.repository: the prompt was cancelled.
promptCancelled(answer) == answer = <<>>

ParseArgument ==
    /\ pc = "start"
    /\ IF userArg # <<>> /\ ValidCoordinate(userArg)
       THEN /\ org' = Split(userArg)[1]
            /\ repo' = Split(userArg)[2]
       ELSE UNCHANGED <<org, repo>>
    /\ pc' = IF org' = <<>> \/ repo' = <<>> THEN "prompt" ELSE "ensure"
    /\ UNCHANGED <<envVars, prompt, exitCode, reported, returned, fsVars, now, stats, stack,
                   pendingUnlink, writeStreams, histVars>>

Prompt ==
    /\ pc = "prompt"
    /\ \E answer \in PromptAnswers :
        /\ prompt' = [shown |-> TRUE, initial |-> DefaultCoordinate, answer |-> answer]
        /\ IF promptCancelled(answer)
           THEN /\ pc' = "exited"
                /\ exitCode' = 0
                /\ UNCHANGED <<org, repo>>
           ELSE /\ org' = Split(answer)[1]
                /\ repo' = Split(answer)[2]
                /\ pc' = "ensure"
                /\ UNCHANGED exitCode
    /\ UNCHANGED <<envVars, reported, returned, fsVars, now, stats, stack, pendingUnlink,
                   writeStreams, histVars>>

----------------------------------------------------------------------------
(* Helpers of the traversal.                                               *)

\* A check that finds nothing.
existsSync_never(fs, p) == FALSE

existsSync(fs, p) == fs[p].kind # "absent"

Top == stack[Len(stack)]
Contents(frame) == RemoteTree[frame.dir]
Item(frame) == Contents(frame)[frame.idx]
ItemPath(frame) == Append(frame.dir, Item(frame).name)

ListRequest(d) == [kind |-> "list", org |-> org, repo |-> repo, path |-> d]
FileRequest(p) == [kind |-> "file", org |-> org, repo |-> repo, path |-> p]

\* A call of downloadDirectory() up to its await of httpsGetJson().
NewFrame(d) == [dir |-> d, idx |-> 0, at |-> "list"]

\* A loop that steps over an entry.
NextEntry_skip(frame) == [frame EXCEPT !.idx = frame.idx + 2, !.at = "loop"]

\* The for loop moves on to the next entry of the listing.
NextEntry(frame) == [frame EXCEPT !.idx = frame.idx + 1, !.at = "loop"]

ReplaceTop(frame) == [stack EXCEPT ![Len(stack)] = frame]

\* A catch block that reports the failure and lets main() return.
mainCatch_noExit ==
    /\ pc' = "done"
    /\ UNCHANGED exitCode

\* The catch block of main(): "Download failed", process.exit(1).
mainCatch ==
    /\ pc' = "exited"
    /\ exitCode' = 1

\* The innermost downloadDirectory() returns, with the stats object or with
\* undefined. A nested call returns into its parent's loop, which drops the
\* value; the outermost one returns into main(), which prints the summary and
\* reads stats.downloaded.
Return(value) ==
    IF Len(stack) > 1
    THEN /\ stack' = [i \in 1..(Len(stack) - 1) |->
                        IF i = Len(stack) - 1 THEN NextEntry(stack[i]) ELSE stack[i]]
         /\ UNCHANGED procVars
    ELSE /\ stack' = <<>>
         /\ returned' = value
         /\ reported' = TRUE
         /\ IF value = "stats"
            THEN /\ pc' = "done"
                 /\ UNCHANGED exitCode
            ELSE mainCatch

\* A catch block that counts the error twice.
directoryCatch_twice ==
    /\ stats' = [stats EXCEPT !.errors = stats.errors + 2]
    /\ Return("stats")

\* A catch block that logs and returns without counting.
directoryCatch_silent ==
    /\ UNCHANGED stats
    /\ Return("stats")

\* The catch block of downloadDirectory(): the error is logged and counted and
\* the call returns stats.
directoryCatch ==
    /\ stats' = [stats EXCEPT !.errors = stats.errors + 1]
    /\ Return("stats")

----------------------------------------------------------------------------
(* main(): the destination root and the top-level call.                    *)

EnsureDestination ==
    /\ pc = "ensure"
    /\ \/ /\ \/ /\ existsSync(local, <<>>)
                /\ UNCHANGED <<local, faults>>
             \/ /\ ~existsSync(local, <<>>)
                /\ local' = [local EXCEPT ![<<>>] = DirNode]
                /\ UNCHANGED faults
          /\ stats' = [downloaded |-> 0, errors |-> 0, moved |-> 0]
          /\ stack' = <<NewFrame(<<>>)>>
          /\ requests' = Append(requests, ListRequest(<<>>))
          /\ pc' = "sync"
          /\ UNCHANGED exitCode
       \/ /\ ~existsSync(local, <<>>)
          /\ faults' = faults \cup {"mkdir-root"}
          /\ mainCatch
          /\ UNCHANGED <<local, stats, stack, requests>>
    /\ UNCHANGED <<envVars, cliVars, reported, returned, temp, now, pendingUnlink, writeStreams,
                   displaced, started, visited>>

----------------------------------------------------------------------------
(* httpsGetJson(): the ways a listing request ends.                        *)

ListingResponses(answer) ==
    CASE answer = "array" -> {"array"}
      [] answer = "object" -> {"object"}
      [] OTHER -> {"status", "network", "badjson"}

\* "resolve" with the parsed value, or "reject".
httpsGetJson(response) ==
    IF response \in {"status", "network", "badjson"} THEN "reject" ELSE "resolve"

\* The check inverted.
IsArray_inverted(response) == response # "array"

\* Array.isArray(contents)
IsArray(response) == response = "array"

ListingResponse ==
    /\ pc = "sync"
    /\ stack # <<>>
    /\ Top.at = "list"
    /\ \E response \in ListingResponses(serverListing[Top.dir]) :
        \/ /\ httpsGetJson(response) = "resolve"
           /\ IsArray(response)
           /\ stack' = ReplaceTop(NextEntry(Top))
           /\ UNCHANGED <<stats, procVars>>
        \/ /\ httpsGetJson(response) = "resolve"
           /\ ~IsArray(response)
           /\ Return("undefined")
           /\ UNCHANGED stats
        \/ /\ httpsGetJson(response) = "reject"
           /\ directoryCatch
    /\ UNCHANGED <<envVars, cliVars, fsVars, now, pendingUnlink, writeStreams, histVars>>

----------------------------------------------------------------------------
(* downloadDirectory(): one entry of the listing at a time.                *)

AtEntry ==
    /\ pc = "sync"
    /\ stack # <<>>
    /\ Top.at = "loop"
    /\ Top.idx <= Len(Contents(Top))

\* item.type === "dir": create the directory when missing, then recurse.
DirectoryEntry ==
    /\ AtEntry
    /\ Item(Top).type = "dir"
    /\ LET p == ItemPath(Top)
       IN  \/ /\ \/ /\ existsSync(local, p)
                    /\ UNCHANGED local
                 \/ /\ ~existsSync(local, p)
                    /\ local' = [local EXCEPT ![p] = DirNode]
              /\ stack' = Append(stack, NewFrame(p))
              /\ requests' = Append(requests, ListRequest(p))
              /\ UNCHANGED <<stats, faults, procVars>>
           \/ /\ ~existsSync(local, p)
              /\ faults' = faults \cup {"mkdir"}
              /\ directoryCatch
              /\ UNCHANGED <<local, requests>>
    /\ visited' = Append(visited, ItemPath(Top))
    /\ UNCHANGED <<envVars, cliVars, temp, now, pendingUnlink, writeStreams, displaced, started>>

\* path.join(os.tmpdir(), `${item.name}.${Date.now()}`)
tempFilePath(name, time) == <<name, time>>

\* A rename that empties the directory of the file.
renameSync_local_sweep(fs, from) ==
    [q \in DOMAIN fs |-> IF q # <<>> /\ Parent(q) = Parent(from) THEN Absent ELSE fs[q]]

\* A rename that leaves the source in place (a copy).
renameSync_local_copy(fs, from) == fs

\* fs.renameSync(from, to), on the destination tree and on the temp area.
renameSync_local(fs, from) == [fs EXCEPT ![from] = Absent]
renameSync_temp(tmp, fs, from, to) == [tmp EXCEPT ![to] = fs[from]]

\* A test that takes every file entry.
IsDownloadable_anyFile(item) == item.type = "file"

\* item.type === "file" and item.download_url is truthy.
IsDownloadable(item) == item.type = "file" /\ item.download_url

\* item.type === "file" with a download_url: an existing local file is moved
\* to temp first.
FileEntryStep ==
    /\ AtEntry
    /\ IsDownloadable(Item(Top))
    /\ LET p == ItemPath(Top)
           to == tempFilePath(Item(Top).name, now)
       IN  \/ /\ ~existsSync(local, p)
              /\ stack' = ReplaceTop([Top EXCEPT !.at = "download"])
              /\ UNCHANGED <<fsVars, stats, displaced, faults, procVars>>
           \/ /\ existsSync(local, p)
              /\ local' = renameSync_local(local, p)
              /\ temp' = renameSync_temp(temp, local, p, to)
              /\ displaced' = Append(displaced, [from |-> p, to |-> to, what |-> local[p]])
              /\ stats' = [stats EXCEPT !.moved = stats.moved + 1]
              /\ stack' = ReplaceTop([Top EXCEPT !.at = "download"])
              /\ UNCHANGED <<faults, procVars>>
           \/ /\ existsSync(local, p)
              /\ faults' = faults \cup {"rename"}
              /\ directoryCatch
              /\ UNCHANGED <<fsVars, displaced>>
    /\ visited' = Append(visited, ItemPath(Top))
    /\ UNCHANGED <<envVars, cliVars, now, pendingUnlink, writeStreams, requests, started>>

\* Neither a directory nor a file with a download_url: nothing is done.
SkipEntry ==
    /\ AtEntry
    /\ Item(Top).type # "dir"
    /\ ~IsDownloadable(Item(Top))
    /\ stack' = ReplaceTop(NextEntry(Top))
    /\ visited' = Append(visited, ItemPath(Top))
    /\ UNCHANGED <<envVars, cliVars, procVars, fsVars, now, stats, pendingUnlink, writeStreams,
                   requests, displaced, started, faults>>

\* The loop is over: return stats.
LoopEnd ==
    /\ pc = "sync"
    /\ stack # <<>>
    /\ Top.at = "loop"
    /\ Top.idx > Len(Contents(Top))
    /\ Return("stats")
    /\ UNCHANGED <<envVars, cliVars, fsVars, now, stats, pendingUnlink, writeStreams, histVars>>

----------------------------------------------------------------------------
(* downloadFile()                                                          *)

\* fs.createWriteStream(destinationPath): flag "w" creates or truncates the
\* file; the open fails when the parent is not a directory.
createWriteStream(fs, p) ==
    IF fs[Parent(p)].kind = "dir" THEN [fs EXCEPT ![p] = Empty] ELSE fs

\* The call: the write stream is created and the request is sent.
StartDownload ==
    /\ pc = "sync"
    /\ stack # <<>>
    /\ Top.at = "download"
    /\ LET p == ItemPath(Top)
       IN  /\ started' = started \cup
                {[path |-> p, held |-> local[p], parent |-> local[Parent(p)].kind]}
           /\ local' = createWriteStream(local, p)
           /\ writeStreams' = writeStreams \cup {p}
           /\ requests' = Append(requests, FileRequest(p))
    /\ stack' = ReplaceTop([Top EXCEPT !.at = "fetch"])
    /\ UNCHANGED <<envVars, cliVars, procVars, temp, now, stats, pendingUnlink,
                   displaced, faults, visited>>

FetchResponses(p) == IF p \in serverFetch THEN {"status", "network"} ELSE {"ok"}

\* A rejection that ends the loop over the directory.
downloadRejected_abort(frame) ==
    [frame EXCEPT !.idx = Len(Contents(frame)) + 1, !.at = "loop"]

\* A rejection after which the same download is started again.
downloadRejected_retry(frame) == [frame EXCEPT !.at = "download"]

\* What the awaiting loop does once downloadFile() has rejected.
downloadRejected(frame) == NextEntry(frame)

\* The response arrives: a 2xx body is piped to the file and the promise
\* resolves on "finish"; a non-2xx status or a request error unlinks the file
\* (not awaited) and rejects, leaving the write stream as it is.
DownloadResponse ==
    /\ pc = "sync"
    /\ stack # <<>>
    /\ Top.at = "fetch"
    /\ local[Parent(ItemPath(Top))].kind = "dir"
    /\ LET p == ItemPath(Top)
       IN  \E response \in FetchResponses(p) :
            \/ /\ response = "ok"
               /\ local' = [local EXCEPT ![p] = New(p)]
               /\ stats' = [stats EXCEPT !.downloaded = stats.downloaded + 1]
               /\ stack' = ReplaceTop(NextEntry(Top))
               /\ writeStreams' = writeStreams \ {p}
               /\ UNCHANGED pendingUnlink
            \/ /\ response = "status"
               /\ pendingUnlink' = pendingUnlink \cup {p}
               /\ stats' = [stats EXCEPT !.errors = stats.errors + 1]
               /\ stack' = ReplaceTop(downloadRejected(Top))
               /\ UNCHANGED <<local, writeStreams>>
            \/ /\ response = "network"
               /\ pendingUnlink' = pendingUnlink \cup {p}
               /\ stats' = [stats EXCEPT !.errors = stats.errors + 1]
               /\ stack' = ReplaceTop(downloadRejected(Top))
               /\ UNCHANGED <<local, writeStreams>>
    /\ UNCHANGED <<envVars, cliVars, procVars, temp, now, histVars>>

\* The write stream emits "error" (it cannot open the file, or a write
\* fails). Nothing listens for it, so it is thrown as an uncaught exception
\* and the process ends with code 1.
WriteStreamError ==
    /\ pc = "sync"
    /\ stack # <<>>
    /\ Top.at = "fetch"
    /\ faults' = faults \cup {"write"}
    /\ pc' = "exited"
    /\ exitCode' = 1
    /\ UNCHANGED <<envVars, cliVars, reported, returned, fsVars, now, stats, stack,
                   pendingUnlink, writeStreams, requests, displaced, started, visited>>

\* The connection breaks after the status line and before the body is
\* complete: the response emits neither "end" nor, with no listener attached,
\* "error", the piped write stream never finishes, and the promise of
\* httpsGetJson() or downloadFile() is never settled.
ResponseAborted ==
    /\ pc = "sync"
    /\ stack # <<>>
    /\ Top.at \in {"list", "fetch"}
    /\ stack' = ReplaceTop([Top EXCEPT !.at = "stalled"])
    /\ faults' = faults \cup {"aborted"}
    /\ UNCHANGED <<envVars, cliVars, procVars, fsVars, now, stats, pendingUnlink, writeStreams,
                   requests, displaced, started, visited>>

\* main() awaits a promise that is never settled. With the spinner's timer
\* running the process stays alive for ever; without it (the output is not a
\* terminal) the event loop runs empty and the process ends with code 0.
StalledExit ==
    /\ pc = "sync"
    /\ stack # <<>>
    /\ Top.at = "stalled"
    /\ pendingUnlink = {}
    /\ pc' = "exited"
    /\ exitCode' = 0
    /\ UNCHANGED <<envVars, cliVars, reported, returned, fsVars, now, stats, stack,
                   pendingUnlink, writeStreams, histVars>>

\* A pending fs.unlink(destinationPath, () => {}) is carried out.
RunUnlink ==
    /\ pc # "exited"
    /\ \E p \in pendingUnlink :
        /\ pendingUnlink' = pendingUnlink \ {p}
        /\ local' = IF local[p].kind \in {"absent", "dir"} THEN local
                    ELSE [local EXCEPT ![p] = Absent]
    /\ UNCHANGED <<envVars, cliVars, procVars, temp, now, stats, stack, writeStreams, histVars>>

\* Time passes.
Tick ==
    /\ pc = "sync"
    /\ now < MaxClock
    /\ now' = now + 1
    /\ UNCHANGED <<envVars, cliVars, procVars, fsVars, stats, stack, pendingUnlink, writeStreams,
                   histVars>>

\* main() has returned and nothing is pending: the process ends with code 0.
ProcessExit ==
    /\ pc = "done"
    /\ pendingUnlink = {}
    /\ pc' = "exited"
    /\ exitCode' = 0
    /\ UNCHANGED <<envVars, cliVars, reported, returned, fsVars, now, stats, stack,
                   pendingUnlink, writeStreams, histVars>>

----------------------------------------------------------------------------
(* The initial states: a command line, a server and a destination.         *)

ServerListings == [RemoteDirs -> {"array", "object", "fail"}]

\* The files a destination with the directories dirs holds besides the ones
\* the remote serves: in each directory a file no listing mentions and a file
\* at the name of each entry the loop passes over.
Bystanders(dirs) ==
    {p \in LocalOnly \cup SkippedEntries :
        Parent(p) \in dirs \/ (Parent(p) = <<>> /\ dirs # {})}

\* The destinations: without the root nothing exists; a file exists only in
\* an existing directory; the path of a remote directory may hold a local
\* regular file instead.
LocalOf(rootExists, dirs, files) ==
    [p \in LocalPaths |->
        IF p = <<>> THEN (IF rootExists THEN DirNode ELSE Absent)
        ELSE IF p \in dirs THEN DirNode
        ELSE IF p \in files THEN Old(p)
        ELSE Absent]

Init ==
    /\ userArg \in UserArgs
    /\ serverListing \in ServerListings
    /\ serverFetch \in SUBSET RemoteFiles
    /\ preexisting \in SUBSET RemoteFiles
    /\ \E rootExists \in BOOLEAN, dirs \in SUBSET SubDirs, blockers \in SUBSET SubDirs :
        /\ \A p \in preexisting : Parent(p) \in dirs
        /\ dirs \cap blockers = {}
        /\ ~rootExists => (dirs = {} /\ blockers = {})
        /\ local = LocalOf(rootExists, dirs, preexisting \cup blockers \cup Bystanders(dirs))
    /\ emptyStart = (\A p \in AllEntryPaths : local[p] = Absent)
    /\ ScriptsIdle
    /\ temp = [t \in TempPaths |-> Absent]
    /\ prompt = [shown |-> FALSE, initial |-> <<>>, answer |-> <<>>]
    /\ org = <<>>
    /\ repo = <<>>
    /\ pc = "start"
    /\ exitCode = -1
    /\ reported = FALSE
    /\ returned = "nothing"
    /\ now = 0
    /\ stats = [downloaded |-> 0, errors |-> 0, moved |-> 0]
    /\ stack = <<>>
    /\ pendingUnlink = {}
    /\ writeStreams = {}
    /\ visited = <<>>
    /\ requests = <<>>
    /\ displaced = <<>>
    /\ started = {}
    /\ faults = {}

Next ==
    \/ ParseArgument
    \/ Prompt
    \/ EnsureDestination
    \/ ListingResponse
    \/ DirectoryEntry
    \/ FileEntryStep
    \/ SkipEntry
    \/ LoopEnd
    \/ StartDownload
    \/ DownloadResponse
    \/ WriteStreamError
    \/ ResponseAborted
    \/ StalledExit
    \/ RunUnlink
    \/ Tick
    \/ ProcessExit

Spec == Init /\ [][Next]_vars

----------------------------------------------------------------------------
(* The rule scripts: processMdcFile() of the convert script (part_001) and  *)
(* of the move script (part_002), and validateFrontmatter() (part_002).     *)
(*                                                                          *)
(* A .mdc file is its frontmatter block: whether the file opens with a      *)
(* "---" line and how the block closes, and the lines between, each a key   *)
(* and the text after the colon.                                            *)

\* The longest frontmatter block.
MaxLines == 4

FrontmatterLine(k, v) == [key |-> k, value |-> v]

\* "a: b" and "*.ts" are texts the YAML parser rejects (a mapping inside a
\* plain scalar, an alias nobody defined); "yes" and "src" are plain strings.
FrontmatterLines ==
    {FrontmatterLine("description", v) : v \in {"", "a: b"}}
    \cup {FrontmatterLine("globs", v) : v \in {"", "src", "*.ts"}}
    \cup {FrontmatterLine("alwaysApply", v) : v \in {"true", "false", "yes"}}
    \cup {FrontmatterLine("tags", "")}

RECURSIVE SeqsUpTo(_, _)
SeqsUpTo(S, n) ==
    IF n = 0 THEN {<<>>}
    ELSE LET shorter == SeqsUpTo(S, n - 1)
         IN  shorter \cup {Append(q, x) : q \in {r \in shorter : Len(r) = n - 1}, x \in S}

\* block: "none" (the file does not open with "---"), "closed" (the closing
\* "---" is followed by a newline), "eof" (the file ends with the closing "---").
MdcContents ==
    {[block |-> "none", lines |-> <<>>]}
    \cup [block : {"closed", "eof"}, lines : SeqsUpTo(FrontmatterLines, MaxLines)]

Keys(lines) == [i \in 1..Len(lines) |-> lines[i].key]
HasKey(lines, k) == \E i \in 1..Len(lines) : lines[i].key = k
LastValue(lines, k) ==
    lines[CHOOSE i \in 1..Len(lines) :
            lines[i].key = k /\ \A j \in (i + 1)..Len(lines) : lines[j].key # k].value

\* matter(content), the YAML parser behind it: a text it rejects or a key
\* given twice makes it throw.
matterThrows(c) ==
    /\ c.block # "none"
    /\ \/ \E i \in 1..Len(c.lines) : c.lines[i].value \in {"a: b", "*.ts"}
       \/ \E i, j \in 1..Len(c.lines) : i # j /\ c.lines[i].key = c.lines[j].key

\* The YAML value of the text after the colon: nothing is null, true and
\* false are the booleans, anything else the string itself.
yamlValue(v) == IF v = "" THEN "null" ELSE v

\* matter(content).data, as far as processMdcFile() reads it.
matterData(c) ==
    [alwaysApply |-> IF HasKey(c.lines, "alwaysApply")
                     THEN yamlValue(LastValue(c.lines, "alwaysApply")) ELSE "undefined",
     globs |-> IF HasKey(c.lines, "globs")
               THEN yamlValue(LastValue(c.lines, "globs")) ELSE "undefined"]

\* content.match(/^---\n([\s\S]*?)\n---\n([\s\S]*)$/)
frontmatterMatch(c) == c.block = "closed" /\ c.lines # <<>>

\* The frontmatter text as the regular expressions see it: per line the key
\* with its colon, a space and the value if any, the lines joined by newlines.
KeyToken(k) == [kind |-> "key", text |-> k]
SpaceToken == [kind |-> "space", text |-> " "]
NewlineToken == [kind |-> "newline", text |-> "\n"]
TextToken(v) == [kind |-> "text", text |-> v]

LineTokens(line) ==
    <<KeyToken(line.key), SpaceToken>>
    \o (IF line.value = "" THEN <<>> ELSE <<TextToken(line.value)>>)

RECURSIVE frontmatterText(_)
frontmatterText(lines) ==
    IF lines = <<>> THEN <<>>
    ELSE IF Len(lines) = 1 THEN LineTokens(lines[1])
    ELSE LineTokens(lines[1]) \o <<NewlineToken>> \o frontmatterText(Tail(lines))

IsWhitespace(t) == t.kind \in {"space", "newline"}

\* The first position at or after i that holds no whitespace; Len(text)+1
\* when there is none.
AfterWhitespace(text, i) ==
    IF \E j \in i..Len(text) : ~IsWhitespace(text[j])
    THEN CHOOSE j \in i..Len(text) :
            ~IsWhitespace(text[j]) /\ \A k \in i..(j - 1) : IsWhitespace(text[k])
    ELSE Len(text) + 1

\* frontmatterText.match(/alwaysApply:\s*(true|false)/): the places where the
\* pattern matches, and the data built from the leftmost one.
alwaysApplyMatchesAt(text, i) ==
    /\ text[i] = KeyToken("alwaysApply")
    /\ LET j == AfterWhitespace(text, i + 1)
       IN  j <= Len(text) /\ text[j] \in {TextToken("true"), TextToken("false")}

alwaysApplyMatch(text) ==
    IF \E i \in 1..Len(text) : alwaysApplyMatchesAt(text, i)
    THEN LET i == CHOOSE i \in 1..Len(text) :
                    alwaysApplyMatchesAt(text, i)
                    /\ \A k \in 1..(i - 1) : ~alwaysApplyMatchesAt(text, k)
         IN  text[AfterWhitespace(text, i + 1)].text
    ELSE "undefined"

\* frontmatterText.match(/globs:\s*(.+)/) tried at the key at position i, the
\* capture trimmed: \s* runs over spaces and newlines alike, and (.+) takes
\* what follows on that line; when only whitespace follows the key, \s* gives
\* back as far as the last space and (.+) takes blanks; "undefined" when the
\* pattern does not match here.
globsCapture(text, i) ==
    LET j == AfterWhitespace(text, i + 1)
    IN  IF j <= Len(text) THEN text[j].text
        ELSE IF \E k \in (i + 1)..Len(text) : text[k].kind = "space" THEN ""
        ELSE "undefined"

globsMatch(text) ==
    LET hits == {i \in 1..Len(text) :
                    text[i] = KeyToken("globs") /\ globsCapture(text, i) # "undefined"}
    IN  IF hits = {} THEN "undefined"
        ELSE globsCapture(text, CHOOSE i \in hits : \A k \in hits : i <= k)

\* The data of the fallback parser.
fallbackData(c) ==
    [alwaysApply |-> alwaysApplyMatch(frontmatterText(c.lines)),
     globs |-> globsMatch(frontmatterText(c.lines))]

\* data.alwaysApply === false && (!data.globs || data.globs === '')
shouldConvert(d) == d.alwaysApply = "false" /\ d.globs \in {"undefined", "null", ""}

\* An order that deletes the original first.
stepAfter_unlinkFirst(which, from) ==
    CASE from = "check" -> "unlink"
      [] from = "unlink" -> (IF which = "move" THEN "mkdir" ELSE "write")
      [] from = "mkdir" -> "write"
      [] OTHER -> "return"

\* The order of the awaited calls once the file qualifies: ensureDir (move
\* script only), writeFile, unlink, return true.
stepAfter(which, from) ==
    CASE from = "check" -> (IF which = "move" THEN "mkdir" ELSE "write")
      [] from = "mkdir" -> "write"
      [] from = "write" -> "unlink"
      [] OTHER -> "return"

\* A catch block that lets the error through.
processCatch_rethrow == "throw"

\* catch (error) { console.error(...); return false; }
processCatch == "false"

Proceed(from) ==
    LET to == stepAfter(script, from)
    IN  IF to = "return"
        THEN step' = "returned" /\ result' = "true"
        ELSE step' = to /\ UNCHANGED result

Caught(op) ==
    /\ ioFailed' = ioFailed \cup {op}
    /\ step' = "returned"
    /\ result' = processCatch

cliState ==
    <<userArg, serverListing, serverFetch, preexisting, emptyStart, cliVars, procVars, fsVars,
      now, stats, stack, pendingUnlink, writeStreams, histVars>>

\* await readFile(filePath, 'utf-8'), in processMdcFile() and in the loop of
\* the validation script, whose catch records the file as invalid.
ReadFile ==
    /\ step = "read"
    /\ \/ /\ step' = "parse"
          /\ UNCHANGED <<ioFailed, result>>
       \/ /\ ioFailed' = ioFailed \cup {"read"}
          /\ step' = "returned"
          /\ result' = IF script = "validate" THEN "invalid" ELSE processCatch
    /\ UNCHANGED <<script, content, data, parse, disk, cliState>>

\* processMdcFile() from the parse to the test: matter(), the fallback when it
\* throws, then the test that decides whether the file is converted.
ParseAndTest ==
    /\ step = "parse"
    /\ script \in {"convert", "move"}
    /\ parse' = [threw |-> matterThrows(content),
                 fallback |-> matterThrows(content)]
    /\ IF matterThrows(content) /\ ~frontmatterMatch(content)
       THEN /\ step' = "returned"
            /\ result' = "false"
            /\ UNCHANGED data
       ELSE /\ data' = IF matterThrows(content) THEN fallbackData(content)
                       ELSE matterData(content)
            /\ IF shouldConvert(data')
               THEN Proceed("check")
               ELSE step' = "returned" /\ result' = "false"
    /\ UNCHANGED <<script, content, disk, ioFailed, cliState>>

\* await ensureDir(newDir): a failure of mkdir is swallowed.
EnsureDir ==
    /\ step = "mkdir"
    /\ \/ /\ disk' = [disk EXCEPT !.dir = TRUE]
          /\ UNCHANGED ioFailed
       \/ /\ ~disk.dir
          /\ ioFailed' = ioFailed \cup {"mkdir"}
          /\ UNCHANGED disk
    /\ Proceed("mkdir")
    /\ UNCHANGED <<script, content, data, parse, cliState>>

\* await writeFile(newPath, markdownContent.trim() + '\n'): it fails when the
\* directory is missing, and may fail otherwise, before or after it has
\* created the file.
WriteFile ==
    /\ step = "write"
    /\ \/ /\ disk.dir
          /\ disk' = [disk EXCEPT !.dst = "converted"]
          /\ Proceed("write")
          /\ UNCHANGED ioFailed
       \/ /\ disk.dir
          /\ disk' = [disk EXCEPT !.dst = "partial"]
          /\ Caught("write")
       \/ /\ UNCHANGED disk
          /\ Caught("write")
    /\ UNCHANGED <<script, content, data, parse, cliState>>

\* await unlink(filePath)
Unlink ==
    /\ step = "unlink"
    /\ \/ /\ disk' = [disk EXCEPT !.src = FALSE]
          /\ Proceed("unlink")
          /\ UNCHANGED ioFailed
       \/ /\ UNCHANGED disk
          /\ Caught("unlink")
    /\ UNCHANGED <<script, content, data, parse, cliState>>

\* parseFrontmatter(content): null without an opening or a closing "---",
\* otherwise the fields in the order of the lines and the last value of each.
parseFrontmatter(c) ==
    [null |-> c.block = "none",
     fields |-> Keys(c.lines),
     values |-> [k \in {c.lines[i].key : i \in 1..Len(c.lines)} |-> LastValue(c.lines, k)]]

requiredFields == <<"description", "globs", "alwaysApply">>

Includes(seq, x) == \E i \in 1..Len(seq) : seq[i] = x

\* fields.filter(field => expectedOrder.includes(field))
RECURSIVE Filter(_, _)
Filter(seq, allowed) ==
    IF seq = <<>> THEN <<>>
    ELSE (IF Includes(allowed, Head(seq)) THEN <<Head(seq)>> ELSE <<>>)
         \o Filter(Tail(seq), allowed)

\* The order check: made only when exactly three of the fields found are
\* expected ones.
orderMatches(actualOrder) ==
    Len(actualOrder) = 3 => \A i \in 1..3 : actualOrder[i] = requiredFields[i]

\* validateFrontmatter(filePath, content).valid
validateFrontmatter(c) ==
    LET parsed == parseFrontmatter(c)
    IN  IF parsed.null THEN FALSE
        ELSE /\ \A i \in 1..Len(requiredFields) : Includes(parsed.fields, requiredFields[i])
             /\ "alwaysApply" \in DOMAIN parsed.values =>
                    parsed.values["alwaysApply"] \in {"true", "false"}
             /\ \A i \in 1..Len(parsed.fields) : Includes(requiredFields, parsed.fields[i])
             /\ orderMatches(Filter(parsed.fields, requiredFields))

\* The validation script on one file.
Validate ==
    /\ step = "parse"
    /\ script = "validate"
    /\ result' = IF validateFrontmatter(content) THEN "valid" ELSE "invalid"
    /\ step' = "returned"
    /\ UNCHANGED <<script, content, data, parse, disk, ioFailed, cliState>>

\* The CLI at rest while a script runs.
CliIdle ==
    /\ userArg = <<>>
    /\ serverListing = [d \in RemoteDirs |-> "array"]
    /\ serverFetch = {}
    /\ preexisting = {}
    /\ emptyStart = TRUE
    /\ prompt = [shown |-> FALSE, initial |-> <<>>, answer |-> <<>>]
    /\ org = <<>>
    /\ repo = <<>>
    /\ pc = "idle"
    /\ exitCode = -1
    /\ reported = FALSE
    /\ returned = "nothing"
    /\ local = [p \in LocalPaths |-> Absent]
    /\ temp = [t \in TempPaths |-> Absent]
    /\ now = 0
    /\ stats = [downloaded |-> 0, errors |-> 0, moved |-> 0]
    /\ stack = <<>>
    /\ pendingUnlink = {}
    /\ writeStreams = {}
    /\ visited = <<>>
    /\ requests = <<>>
    /\ displaced = <<>>
    /\ started = {}
    /\ faults = {}

\* A script is started on one .mdc file found by findMdcFiles(): the file
\* exists; the directory the move script writes to may not.
ScriptInit ==
    /\ CliIdle
    /\ script \in {"convert", "move", "validate"}
    /\ content \in MdcContents
    /\ step = "read"
    /\ data = NoData
    /\ parse = NoParse
    /\ \E dir \in BOOLEAN :
        /\ script # "move" => dir
        /\ disk = [src |-> TRUE, dst |-> "absent", dir |-> dir]
    /\ ioFailed = {}
    /\ result = "none"

ScriptNext ==
    \/ ReadFile
    \/ ParseAndTest
    \/ EnsureDir
    \/ WriteFile
    \/ Unlink
    \/ Validate

ScriptSpec == ScriptInit /\ [][ScriptNext]_vars

----------------------------------------------------------------------------
(* Properties.                                                             *)

AllListingsSucceed == \A d \in RemoteDirs : serverListing[d] = "array"

\* The synchronisation was started and the process has ended.
RunEnded == pc = "exited" /\ requests # <<>>

IsBelow(d, p) == Len(p) > Len(d) /\ SubSeq(p, 1, Len(d)) = d

\* A nested downloadDirectory() call is about to receive this answer to its
\* listing request, and this step delivers it.
SubListingAnswered(answer) ==
    /\ pc = "sync"
    /\ Len(stack) > 1
    /\ Top.at = "list"
    /\ serverListing[Top.dir] = answer
    /\ stack' # stack
    /\ faults' = faults

\* C1: a local file that exists where a remote file is to be written is renamed
\* to temp before the download to its path begins: downloadFile() is never
\* started on a path that still holds the pre-existing file, and the call about
\* to be made finds the path free of it.
C1_DisplacedBeforeDownload ==
    /\ \A s \in started :
        /\ s.held.kind # "old"
        /\ s.path \in preexisting =>
            \E i \in 1..Len(displaced) :
                displaced[i].from = s.path /\ displaced[i].what = Old(s.path)
    /\ (stack # <<>> /\ Top.at = "download") => local[ItemPath(Top)].kind # "old"

C1_Witness ==
    \E s \in started : s.path \in preexisting /\ local[s.path].kind = "new"

\* C2: no destructive loss, taken in the case most favourable to it (every
\* listing and every download succeeds, no filesystem call fails): after the
\* run every file that was there before has its new version at the mirrored
\* path and its old version somewhere in the temp area.
C2_NoDestructiveLoss ==
    (RunEnded /\ exitCode = 0 /\ AllListingsSucceed /\ serverFetch = {} /\ faults = {}) =>
        \A p \in preexisting :
            /\ local[p] = New(p)
            /\ \E t \in TempPaths : temp[t] = Old(p)

\* C3: any two displacements of one run go to distinct temp paths.
C3_DisplacementsDistinct ==
    \A i, j \in 1..Len(displaced) : i # j => displaced[i].to # displaced[j].to

\* C4: when every listing succeeds, no filesystem call fails and the fetch of
\* exactly one file fails, the run completes (exit 0, summary printed) with
\* downloaded = N-1 and errors = 1, and every other file, those listed after the
\* failed one included, is downloaded.
C4_PartialFailureIsolation ==
    (RunEnded /\ AllListingsSucceed /\ faults = {} /\ Cardinality(serverFetch) = 1) =>
        /\ exitCode = 0
        /\ reported
        /\ stats.downloaded = Cardinality(RemoteFiles) - 1
        /\ stats.errors = 1
        /\ \A p \in RemoteFiles \ serverFetch : local[p] = New(p)

C4_Witness ==
    /\ RunEnded
    /\ AllListingsSucceed
    /\ faults = {}
    /\ serverFetch = {<<"x", "a">>}
    /\ local[<<"x", "b">>] = New(<<"x", "b">>)
    /\ local[<<"y", "a">>] = New(<<"y", "a">>)
    /\ stats.errors = 1

\* C5: a failed listing of a subdirectory is caught in that call: the step
\* adds exactly one to errors, changes nothing else of the counters or the
\* disk, and leaves the parent at the entry that follows the subdirectory; and
\* nothing below the subdirectory is ever requested, displaced or downloaded.
C5_SubListingFailureStep ==
    SubListingAnswered("fail") =>
        /\ stats' = [stats EXCEPT !.errors = stats.errors + 1]
        /\ Len(stack') = Len(stack) - 1
        /\ stack'[Len(stack')] = NextEntry(stack[Len(stack) - 1])
        /\ UNCHANGED <<fsVars, histVars, procVars>>

C5_SubtreeUntouched ==
    \A d \in SubDirs :
        serverListing[d] = "fail" =>
            /\ \A i \in 1..Len(requests) : ~IsBelow(d, requests[i].path)
            /\ \A i \in 1..Len(displaced) : ~IsBelow(d, displaced[i].from)
            /\ \A s \in started : ~IsBelow(d, s.path)

C5_SubListingFailureContained ==
    [](C5_SubtreeUntouched) /\ [][C5_SubListingFailureStep]_vars

C5_Witness ==
    /\ serverListing[<<"x">>] = "fail"
    /\ stats.errors = 1
    /\ \E i \in 1..Len(requests) : requests[i].path = <<"y", "a">>

\* C6: a subdirectory listing that is valid JSON but not an array adds exactly
\* one to errors and nothing to downloaded.
C6_MalformedListingCounted ==
    [][SubListingAnswered("object") =>
        /\ stats'.errors = stats.errors + 1
        /\ stats'.downloaded = stats.downloaded]_vars

\* C7: when the top-level listing call fails, the process ends with a non-zero
\* code and without having reported a completed download.
C7_TopListingFailureExitsNonZero ==
    (RunEnded /\ serverListing[<<>>] = "fail") => (exitCode # 0 /\ ~reported)

\* C8: when the destination root is missing and cannot be created, the run
\* ends at once with exit code 1: no request is issued, nothing is displaced,
\* no download is started and nothing is reported as completed.
C8_RootCreationFailureAborts ==
    "mkdir-root" \in faults =>
        /\ pc = "exited"
        /\ exitCode = 1
        /\ requests = <<>>
        /\ displaced = <<>>
        /\ started = {}
        /\ stack = <<>>
        /\ ~reported
        /\ \A p \in Paths : local[p] = Absent
        /\ \A t \in TempPaths : temp[t] = Absent

C8_Witness == "mkdir-root" \in faults /\ exitCode = 1

\* C9: once the destination root exists and the top-level listing has returned
\* an array, the run ends with exit code 0 whatever fails below the root.
C9_CompletionExitsZero ==
    (RunEnded /\ serverListing[<<>>] = "array") => exitCode = 0

\* segment/segment: exactly one slash, with something on either side of it.
SegmentSlashSegment(arg) ==
    /\ Cardinality({i \in 1..Len(arg) : arg[i] = "/"}) = 1
    /\ arg[1] # "/"
    /\ arg[Len(arg)] # "/"

InvalidArgument == userArg # <<>> /\ ~SegmentSlashSegment(userArg)

FirstCoordinate == requests[1].org \o <<"/">> \o requests[1].repo

\* C10, as claimed: with an invalid command-line coordinate the listing request
\* of the run is made against the default repository.
C10_InvalidArgumentUsesDefault ==
    (InvalidArgument /\ requests # <<>>) => FirstCoordinate = DefaultCoordinate

\* C10, amended: an invalid command-line coordinate is not fatal and is never
\* used; the run falls back to the interactive prompt, pre-filled with the
\* default coordinate, and the listing request goes to the repository the
\* prompt returns (the default one when the pre-filled value is accepted);
\* a cancelled prompt ends the run with code 0 and without any request.
C10_InvalidArgumentFallsBackToPrompt ==
    (InvalidArgument /\ pc # "start") =>
        /\ pc = "prompt" \/ prompt.shown
        /\ prompt.shown => prompt.initial = DefaultCoordinate
        /\ requests # <<>> => FirstCoordinate = prompt.answer
        /\ (prompt.shown /\ prompt.answer = <<>>) =>
            (pc = "exited" /\ exitCode = 0 /\ requests = <<>>)

C10_Witness ==
    /\ userArg = <<"rules">>
    /\ prompt.answer = DefaultCoordinate
    /\ requests # <<>>
    /\ FirstCoordinate = DefaultCoordinate

\* A run in which every listing and every download succeeds and nothing else
\* fails, at its end.
CleanRun == RunEnded /\ AllListingsSucceed /\ serverFetch = {} /\ faults = {}

FileRequested(p) ==
    \E i \in 1..Len(requests) : requests[i].kind = "file" /\ requests[i].path = p

\* C11: a remote file whose mirrored local path already exists is skipped: it
\* is not downloaded and the local file stays at its path unchanged.
C11_ExistingFilesSkipped ==
    \A p \in preexisting :
        /\ local[p] = Old(p)
        /\ ~FileRequested(p)

MirrorOf(files) ==
    [p \in LocalPaths |->
        IF p \in LocalOnly THEN Absent
        ELSE IF p = <<>> \/ EntryAt(p).type = "dir" THEN DirNode
        ELSE IF p \in files THEN New(p)
        ELSE Absent]

TempEmpty == \A t \in TempPaths : temp[t] = Absent

\* C13, as claimed: from an empty destination, a run without failures leaves
\* exactly the directories and the files of the remote tree, with the fetched
\* content, and nothing else.
C13_MirrorsEveryFile ==
    (CleanRun /\ emptyStart) =>
        /\ local = MirrorOf({p \in AllEntryPaths : EntryAt(p).type = "file"})
        /\ TempEmpty

\* C13, amended: the files mirrored are those whose entry carries a
\* download_url.
C13_MirrorsDownloadableFiles ==
    (CleanRun /\ emptyStart) =>
        /\ local = MirrorOf(RemoteFiles)
        /\ TempEmpty

C13_Witness ==
    /\ CleanRun
    /\ emptyStart
    /\ local[<<"y", "a">>] = New(<<"y", "a">>)
    /\ local[<<"y", "n">>] = Absent

FileEntriesVisited ==
    Cardinality({i \in 1..Len(visited) : EntryAt(visited[i]).type = "file"})

ListingsRequested == Cardinality({i \in 1..Len(requests) : requests[i].kind = "list"})

\* C14, as claimed: downloaded + errors never exceeds the number of file
\* entries visited so far.
C14_CountersBoundedByFiles ==
    stats.downloaded + stats.errors <= FileEntriesVisited

\* C14, amended: downloaded + errors never exceeds the number of file entries
\* visited so far plus the number of directory listings requested so far.
C14_CountersBoundedByFilesAndListings ==
    stats.downloaded + stats.errors <= FileEntriesVisited + ListingsRequested

C14_Witness ==
    /\ stats.errors = 2
    /\ stats.downloaded = 1
    /\ FileEntriesVisited = 2
    /\ ListingsRequested = 3

Visited(p) == \E i \in 1..Len(visited) : visited[i] = p

ListingRequested(d) ==
    \E i \in 1..Len(requests) : requests[i].kind = "list" /\ requests[i].path = d

\* C15: when the only failures of a run are renames to temp and subdirectory
\* creations that throw, every failure is counted and every entry of every
\* directory that was listed is still taken up (only the subtree of a
\* directory that could not be created is left out).
C15_FilesystemFailureKeepsSiblings ==
    (returned = "stats" /\ AllListingsSucceed /\ faults # {}
        /\ faults \subseteq {"mkdir", "rename"}) =>
        /\ stats.errors >= 1
        /\ \A d \in RemoteDirs :
            ListingRequested(d) => \A p \in ChildPaths(d) : Visited(p)

\* C16: once the top-level downloadDirectory() call is over, what it handed to
\* main() is the stats object, whatever the top-level listing answered.
C16_TopLevelReturnsStats ==
    (requests # <<>> /\ stack = <<>>) => returned = "stats"

\* C17: no listing request and no download is ever left with a promise that
\* can no longer settle, and a run that has started listing ends only after
\* downloadDirectory() has returned to main().
C17_TraversalTerminates ==
    /\ \A i \in 1..Len(stack) : stack[i].at # "stalled"
    /\ (pc = "exited" /\ requests # <<>>) => (stack = <<>> /\ returned # "nothing")

\* The entries of the remote tree in depth-first order, each directory before
\* its subtree and each subtree before the next sibling.
RECURSIVE PreorderFrom(_, _)
PreorderFrom(d, i) ==
    IF i > Len(RemoteTree[d]) THEN <<>>
    ELSE LET e == RemoteTree[d][i]
             p == Append(d, e.name)
         IN  <<p>> \o (IF e.type = "dir" THEN PreorderFrom(p, 1) ELSE <<>>)
                   \o PreorderFrom(d, i + 1)

Preorder == PreorderFrom(<<>>, 1)
PreorderIndex(p) == CHOOSE k \in 1..Len(Preorder) : Preorder[k] = p

IndexIn(d, p) == CHOOSE k \in 1..Len(RemoteTree[d]) : Append(d, RemoteTree[d][k].name) = p

IsAtOrBelow(d, p) == Len(p) >= Len(d) /\ SubSeq(p, 1, Len(d)) = d

\* C18: entries are taken up one at a time, in depth-first order: the entries
\* of a directory in the order of its listing with none passed over, and the
\* whole subtree of a directory entry before the entry that follows it. Only
\* the innermost call is active; every outer call waits at the directory entry
\* the next inner call is listing.
C18_SequentialDepthFirst ==
    /\ \A i, j \in 1..Len(visited) :
        i < j => PreorderIndex(visited[i]) < PreorderIndex(visited[j])
    /\ \A i \in 1..Len(visited) :
        LET p == visited[i]
            k == IndexIn(Parent(p), p)
        IN  k > 1 => \E j \in 1..(i - 1) :
                        visited[j] = Append(Parent(p), RemoteTree[Parent(p)][k - 1].name)
    /\ \A k \in 1..Len(stack) :
        /\ visited # <<>> => IsAtOrBelow(stack[k].dir, visited[Len(visited)])
        /\ k < Len(stack) =>
            /\ stack[k].at = "loop"
            /\ stack[k].idx \in 1..Len(Contents(stack[k]))
            /\ Item(stack[k]).type = "dir"
            /\ stack[k + 1].dir = ItemPath(stack[k])
    /\ (stack # <<>> /\ Top.at \in {"download", "fetch"}) =>
        (visited # <<>> /\ visited[Len(visited)] = ItemPath(Top))

C18_Witness ==
    /\ visited = Preorder
    /\ stack = <<>>

\* C19: whenever a download to a local path starts, the parent of that path
\* exists locally as a directory.
C19_ParentDirectoryExists ==
    \A s \in started : s.parent = "dir"

RequestsInFlight ==
    Cardinality({k \in 1..Len(stack) : stack[k].at \in {"list", "fetch"}})

\* C20: at any instant at most one network request is in flight and at most
\* one write stream is open.
C20_OneRequestOneWrite ==
    /\ RequestsInFlight <= 1
    /\ Cardinality(writeStreams) <= 1

\* C21: no request is repeated: within a run each listing URL and each file
\* content URL is requested at most once, whatever the answers.
C21_NoRetry ==
    \A i, j \in 1..Len(requests) : requests[i] = requests[j] => i = j

C21_Witness ==
    /\ RunEnded
    /\ serverFetch = RemoteFiles
    /\ stats.errors = Cardinality(RemoteFiles)
    /\ Len(requests) = Cardinality(RemoteDirs) + Cardinality(RemoteFiles)

\* C22: moved may exceed downloaded. A traversal that returns with every
\* listing answered and no filesystem failure has moved every file that was
\* there before, downloaded every file the server delivers and counted an
\* error for every file it does not; so moved exceeds downloaded as soon as
\* more files were there than the server delivers.
C22_MovedMayExceedDownloaded ==
    (returned = "stats" /\ AllListingsSucceed /\ faults = {}) =>
        /\ stats.moved = Cardinality(preexisting)
        /\ stats.downloaded = Cardinality(RemoteFiles \ serverFetch)
        /\ stats.errors = Cardinality(serverFetch)
        /\ Cardinality(preexisting) > Cardinality(RemoteFiles \ serverFetch) =>
            stats.moved > stats.downloaded

C22_Witness ==
    /\ returned = "stats"
    /\ stats.moved > stats.downloaded
    /\ stats.errors >= 1
    /\ \E i \in 1..Len(displaced) : displaced[i].from \in serverFetch

\* The download of p was requested and rejected.
DownloadRejected(p) ==
    /\ p \in serverFetch
    /\ FileRequested(p)
    /\ ~(stack # <<>> /\ Top.idx > 0 /\ Top.at \in {"fetch", "stalled"} /\ ItemPath(Top) = p)

\* C23: once the download of a file that was there before the run has been
\* rejected and the cleanup unlink has run, nothing is left at the mirrored
\* path and the version from before the run is in the temp area.
C23_FailedDownloadKeepsOldInTemp ==
    \A p \in preexisting :
        (faults = {} /\ DownloadRejected(p) /\ p \notin pendingUnlink) =>
            /\ local[p] = Absent
            /\ \E t \in TempPaths : temp[t] = Old(p)

\* The listing of directory d has come back as an array.
ListingReturned(d) ==
    /\ serverListing[d] = "array"
    /\ ListingRequested(d)
    /\ ~\E k \in 1..Len(stack) : stack[k].dir = d /\ stack[k].idx = 0

\* q is the mirrored path of an entry some listing has returned.
Mirrored(q) == q \in AllEntryPaths /\ ListingReturned(Parent(q))

C25_SkippedEntryNoEffect ==
    /\ [](\A p \in SkippedEntries :
            /\ ~FileRequested(p)
            /\ \A i \in 1..Len(displaced) : displaced[i].from # p)
    /\ [][\A p \in SkippedEntries :
            /\ local'[p] = local[p]
            /\ visited' = Append(visited, p) =>
                /\ stats' = stats
                /\ requests' = requests
                /\ fsVars' = fsVars
                /\ displaced' = displaced
                /\ started' = started
                /\ pendingUnlink' = pendingUnlink
                /\ writeStreams' = writeStreams]_vars

C25_Witness ==
    /\ Visited(<<"y", "n">>)
    /\ local[<<"y", "n">>] = Old(<<"y", "n">>)
    /\ Visited(<<"l">>)
    /\ local[<<"l">>] = Old(<<"l">>)

PromptWasCancelled == prompt.shown /\ prompt.answer = <<>>

\* C26: when the prompt is cancelled the process exits with code 0 and
\* nothing has happened: no request, no directory creation, no displacement,
\* no download.
C26_CancelledPromptExitsClean ==
    /\ [](PromptWasCancelled =>
            /\ pc = "exited"
            /\ exitCode = 0
            /\ requests = <<>>
            /\ displaced = <<>>
            /\ started = {}
            /\ stack = <<>>
            /\ faults = {}
            /\ TempEmpty)
    /\ [][PromptWasCancelled' => local' = local]_vars

C26_Witness ==
    /\ PromptWasCancelled
    /\ exitCode = 0
    /\ local[<<>>] = Absent
    /\ userArg = <<"rules">>

ConvertScript == script \in {"convert", "move"}

\* C27: in both processMdcFile() variants the original is deleted only after
\* the converted file has been written: at every moment the original exists
\* or the converted file is complete, the step that deletes the original
\* starts from a complete converted file, and when the write or the creation
\* of the target directory has failed the original is still there and the
\* function returns false.
C27_OriginalDeletedAfterWrite ==
    /\ [](ConvertScript =>
            /\ disk.src \/ disk.dst = "converted"
            /\ (ioFailed \cap {"mkdir", "write"} # {}) =>
                /\ disk.src
                /\ step = "returned" => result = "false")
    /\ [][(ConvertScript /\ disk.src /\ ~disk'.src) =>
            (disk.dst = "converted" /\ disk'.dst = "converted")]_vars

C27_Witness ==
    /\ script = "move"
    /\ ioFailed = {"mkdir", "write"}
    /\ disk.src
    /\ result = "false"

\* What the frontmatter block says, each key given once.
KeysOnce(lines) == \A i, j \in 1..Len(lines) : lines[i].key = lines[j].key => i = j
ValueOf(lines, k) == lines[CHOOSE i \in 1..Len(lines) : lines[i].key = k].value

Qualifies(c) ==
    /\ HasKey(c.lines, "alwaysApply")
    /\ ValueOf(c.lines, "alwaysApply") = "false"
    /\ HasKey(c.lines, "globs") => ValueOf(c.lines, "globs") = ""

\* C28: with the file operations succeeding, processMdcFile() converts a file
\* with a well-delimited frontmatter block if and only if the block has
\* alwaysApply false and globs absent or empty; for every other file it
\* returns false and changes nothing on disk.
C28_ConvertsIffQualifies ==
    (ConvertScript /\ step = "returned" /\ ioFailed = {}
        /\ content.block = "closed" /\ KeysOnce(content.lines)) =>
        /\ result = "true" <=> Qualifies(content)
        /\ result = "false" => disk = [src |-> TRUE, dst |-> "absent", dir |-> disk.dir]

\* C29: processMdcFile() never throws to its caller: the fallback is used
\* only when the structured parse threw, and a file operation that fails, or
\* a fallback that finds no frontmatter, gives the return value false.
C29_NeverThrows ==
    ConvertScript =>
        /\ result \in {"none", "true", "false"}
        /\ parse.fallback => parse.threw
        /\ step = "returned" => result \in {"true", "false"}
        /\ (step = "returned" /\ ioFailed \cap {"read", "write", "unlink"} # {}) =>
            result = "false"
        /\ (step = "returned" /\ parse.threw /\ ~frontmatterMatch(content)) =>
            result = "false"

C29_Witness ==
    /\ ConvertScript
    /\ parse.fallback
    /\ ioFailed = {"unlink"}
    /\ result = "false"

\* C30: validateFrontmatter() reports a file valid if and only if its
\* frontmatter block exists and its fields are exactly description, globs,
\* alwaysApply, each once and in that order, with alwaysApply 'true' or
\* 'false'.
C30_ValidIffExactFields ==
    (script = "validate" /\ step = "returned" /\ ioFailed = {}) =>
        (result = "valid" <=>
            /\ content.block # "none"
            /\ Keys(content.lines) = <<"description", "globs", "alwaysApply">>
            /\ content.lines[3].value \in {"true", "false"})

====
